---- MODULE Spec2Model ----
(***************************************************************************)
(* A model of lj-backup (lib/lj_backup.py, lib/better_json.py):            *)
(*   - JournalStorage: the in-memory index and the _json directory;        *)
(*   - FeedBackup: entry listing, entry sync, comment metadata loop;       *)
(*   - CommentsTree: tree building and orphan marking;                     *)
(*   - the path checks of JournalStorage.ensure_dir / save_file.           *)
(* Each part has a specification of its own over the shared variables.     *)
(***************************************************************************)
EXTENDS Integers, Sequences, FiniteSets, TLC

(***************************************************************************)
(* Bounds of the model.                                                    *)
(***************************************************************************)
MaxEntryId == 2
MaxCommentId == 2
MaxRev == 2
MaxOps == 3
MaxClock == 4
PageSize == 2

\* More requests than any listing of MaxClock items needs.
MaxReq == MaxClock + 3

MaxRemoteComment == 3
MetaPageSize == 2

\* More requests than any comment set of the model needs.
MaxMetaReq == MaxRemoteComment + 3

\* Comment bodies in one page, and comment-sync passes in one behaviour.
BodyPageSize == 2
MaxPasses == 2

\* More requests than any comment set of the model needs.
MaxBodyReq == MaxRemoteComment + 3

\* Comment ids of one entry's comment list, for the tree.
MaxTree == 3

\* Characters of a path argument, and calls on one store.
MaxPathLen == 3
MaxPathOps == 1

EntryIds == 1..MaxEntryId
CommentIds == 1..MaxCommentId
Revs == 1..MaxRev

\* Python's None where the code compares it with a number.
None == 0 - 1

Max(a, b) == IF a >= b THEN a ELSE b

SetMax(S) == IF S = {} THEN 0 ELSE CHOOSE x \in S : \A y \in S : y <= x

\* All the orders in which the members of S can be enumerated.
Orderings(S) ==
    {s \in [1..Cardinality(S) -> S] : \A i, j \in 1..Cardinality(S) : s[i] = s[j] => i = j}

VARIABLES
    \* JournalStorage, in memory
    entries,          \* self.entries: itemid -> entry
    comments,         \* self.comments: entry_id -> list of comments
    max_comment_id,   \* self.max_comment_id
    modified,         \* self.modified
    load_error,       \* the last reload raised from json.load
    \* JournalStorage, on disk
    entryFiles,       \* _json/entries: file name -> content
    commentFiles,     \* _json/comments: file name -> content
    \* a save_file in progress
    wpc,              \* "idle" | "tmp" | "written" | "renamed" | "crashed"
    wjob,             \* the write begun last: kind, name, data
    wprev,            \* the target's content when the write began (a set: empty or one)
    nops,             \* operations started so far
    last_op,          \* the step taken last
    \* the remote journal
    rlog,             \* the items syncitems reports, oldest change first: kind, id, time
    clock,            \* the time of the latest change
    \* FeedBackup.backup and list_entries
    pc,               \* "idle" | "list" | "entries" | "comments" | "failed"
    items, count, total, last_sync,    \* list_entries' locals
    sync_list, idx, downloaded,        \* backup's locals; idx is the loop's position
    nreq,             \* syncitems requests of this listing
    prev_list,        \* the listing of the pass completed last (a set: empty or one)
    entryFiles0,      \* _json/entries when the pass began
    \* the remote journal's comments, and FeedBackup.get_meta_since
    rcomments,        \* the ids of the comments the server holds
    mpc,              \* "idle" | "meta" | "done"
    highest, maxid,   \* get_meta_since's watermark and the server's bound
    all_meta,         \* its result so far: comments, usermaps
    mreq,             \* fetch_comment_meta requests of this call
    mseed,            \* the highest it was called with
    \* FeedRenderer.generate_entries' loop over one entry, and its CommentsTree
    tpc,              \* "new" | "build" | "built" | "marked" | "error"
    tinput,           \* the entry's comment list, as stored
    tqueue,           \* the sorted comments not added yet
    kids,             \* owner -> the ids in its list: 0 is self.tree, n is node n's comments
    deleted_comments, \* self.deleted_comments (ids of the nodes)
    skip,             \* node id -> its _skip
    \* the file system under ensure_dir and save_file
    fs_dirs, fs_files,  \* the directories and the files there are (resolved paths)
    pcall,            \* the call made last: op, arg, target
    presult,          \* how it ended: "ok" | "ValueError" | "OSError" | "IOError"
    fs_dirs0, fs_files0,  \* the file system when it began
    pops,             \* calls made so far
    \* JournalStorage: the user names and the user info, in memory and on disk
    usernames,        \* self.usernames: poster id -> name
    usernamesFile,    \* _json/usernames.js (a set: empty or one document)
    userinfo,         \* self.userinfo
    userinfoFile,     \* _json/userinfo.js (a set: empty or one document)
    put_error,        \* the put made last raised from better_json_encode
    \* CommentsTree.render
    nstate,           \* comment id -> the 'state' of its node in the tree
    shown,            \* what render returned last: the nodes surfaced, in order
    \* the comment part of FeedBackup.backup
    cpc,              \* "idle" | "phaseA" | "usernames" | "phaseB" | "persist" | "expire" | "done" | "aborted"
    session,          \* the handle sessiongenerate returned
    sessions,         \* the handles the server holds open
    nsess,            \* handles generated so far
    rsess,            \* the handles sent with the requests of this pass
    nexpire,          \* sessionexpire calls of this pass
    bpos,             \* get_bodies_since's highest
    bodies,           \* get_bodies_since's result so far: id -> body
    breq,             \* fetch_comment_bodies requests of this call
    last_page,        \* the ids of the body page received last
    pqueue,           \* the sorted bodies not put yet
    cput,             \* the comment ids put by this pass
    comments0,        \* self.comments when the pass began
    commentFiles0,    \* _json/comments when the pass began
    npass             \* passes begun so far

storeVars == <<entries, comments, max_comment_id, modified, load_error>>
diskVars == <<entryFiles, commentFiles>>
writeVars == <<wpc, wjob, wprev, nops>>
remoteVars == <<rlog, clock>>
listVars == <<items, count, total, last_sync, nreq>>
passVars == <<sync_list, idx, downloaded, prev_list, entryFiles0>>
backupVars == <<rlog, clock, pc, items, count, total, last_sync, nreq,
                sync_list, idx, downloaded, prev_list, entryFiles0>>
metaVars == <<rcomments, mpc, highest, maxid, all_meta, mreq, mseed>>
allStoreVars == <<storeVars, diskVars, writeVars>>
treeVars == <<tpc, tinput, tqueue, kids, deleted_comments, skip>>
pathVars == <<fs_dirs, fs_files, pcall, presult, fs_dirs0, fs_files0, pops>>
renderVars == <<nstate, shown>>
userVars == <<usernames, usernamesFile, userinfo, userinfoFile, put_error>>
csyncVars == <<cpc, session, sessions, nsess, rsess, nexpire, bpos, bodies, breq,
               last_page, pqueue, cput, comments0, commentFiles0, npass>>

\* What the steps of each part leave alone.
outsideStore == <<backupVars, metaVars, treeVars, pathVars, userVars, csyncVars,
                  renderVars>>
outsideSync == <<metaVars, treeVars, pathVars, userVars, csyncVars, renderVars>>
outsideMeta == <<allStoreVars, backupVars, treeVars, pathVars, userVars, csyncVars,
                 renderVars>>
outsideRender == <<allStoreVars, backupVars, metaVars, pathVars, userVars, csyncVars>>
outsideTree == <<outsideRender, renderVars>>
outsidePath == <<allStoreVars, backupVars, metaVars, treeVars, userVars, csyncVars,
                 renderVars>>
outsideComments == <<entries, entryFiles, load_error, writeVars, backupVars, mpc,
                     treeVars, pathVars, userinfo, userinfoFile, put_error,
                     renderVars>>
outsidePut == <<max_comment_id, load_error, wpc, wjob, wprev, backupVars, metaVars,
                treeVars, pathVars, csyncVars, renderVars>>

(***************************************************************************)
(* Values and their JSON form.  An event text arrives from XML-RPC either  *)
(* as a string or as an xmlrpclib.Binary; BetterJSONEncoder.default writes *)
(* a Binary as its data, so it is read back as a string.                   *)
(***************************************************************************)
Str(v) == [tag |-> "str", v |-> v]
Bin(v) == [tag |-> "bin", v |-> v]
Events == {Str(r) : r \in Revs} \cup {Bin(1)}

BetterJSONEncoder_default(obj) == IF obj.tag = "bin" THEN Str(obj.v) ELSE obj

\* better_json_encode followed by json.load: the record as a reload reads it.
better_json_encode(value) ==
    [k \in DOMAIN value |->
        IF k \in {"event", "body"} THEN BetterJSONEncoder_default(value[k]) ELSE value[k]]

\* Mutant: the extra fields are not added to the record.
WithoutExtras(record, extras) == record

\* for k, v in extras.items(): record[k] = v
WithExtras(record, extras) ==
    [k \in DOMAIN record \cup DOMAIN extras |->
        IF k \in DOMAIN extras THEN extras[k] ELSE record[k]]

(***************************************************************************)
(* Files.  "<n>.js" is the record's file; AtomicFile writes to a temporary *)
(* file beside it and renames it over the target when it is closed.        *)
(***************************************************************************)
JsFile(n) == [ext |-> "js", n |-> n]
TmpFile(n) == [ext |-> "tmp", n |-> n]

\* The temporary file AtomicFile makes for a target.
TmpOf(name) == TmpFile(name.n)

Content(full, data) == [full |-> full, data |-> data]

\* Mutant: the glob takes every file of the directory.
GlobAnyFile(files) == DOMAIN files

\* glob.iglob('%s/*.js' % path)
GlobJs(files) == {f \in DOMAIN files : f.ext = "js"}

PutFile(files, name, content) ==
    [f \in DOMAIN files \cup {name} |-> IF f = name THEN content ELSE files[f]]

RemoveFile(files, name) == [f \in DOMAIN files \ {name} |-> files[f]]

\* os.rename(temp, target)
RenameFile(files, from, to) == RemoveFile(PutFile(files, to, files[from]), from)

(***************************************************************************)
(* JournalStorage.reload                                                   *)
(***************************************************************************)
\* json.load raises on a file that is not a complete document.
LoadFails(eFiles, cFiles) ==
    \/ \E f \in GlobJs(eFiles) : ~eFiles[f].full
    \/ \E f \in GlobJs(cFiles) : ~cFiles[f].full

\* self.entries[data['itemid']] = data, for every file of the directory
LoadEntries(eFiles) ==
    LET recs == {eFiles[f].data : f \in GlobJs(eFiles)}
    IN  [i \in {r.itemid : r \in recs} |-> CHOOSE r \in recs : r.itemid = i]

\* self.comments[data['entry_id']].append(data), in the order `order`
CommentsOf(order) ==
    [e \in EntryIds |-> SelectSeq(order, LAMBDA c : c.entry_id = e)]

NoComments == [e \in EntryIds |-> <<>>]

\* Mutant: reload leaves max_comment_id as it is.
LoadedMaxKept(old, cFiles) == old

\* self.max_comment_id = max(self.max_comment_id, data['comment_id'])
LoadedMaxCommentId(old, cFiles) ==
    Max(old, SetMax({cFiles[f].data.comment_id : f \in GlobJs(cFiles)}))

\* The body of reload once it has decided to load; `old_max` is self.max_comment_id.
DoReload(old_max) ==
    IF LoadFails(entryFiles, commentFiles)
    THEN /\ load_error' = TRUE
         /\ entries' = << >>
         /\ comments' = NoComments
         /\ UNCHANGED <<max_comment_id, modified>>
    ELSE /\ load_error' = FALSE
         /\ entries' = LoadEntries(entryFiles)
         /\ \E order \in Orderings({commentFiles[f].data : f \in GlobJs(commentFiles)}) :
               comments' = CommentsOf(order)
         /\ max_comment_id' = LoadedMaxCommentId(old_max, commentFiles)
         /\ modified' = FALSE

\* Mutant: only a forced reload loads.
ReloadOnlyWhenForced(force) ==
    IF ~force
    THEN UNCHANGED storeVars
    ELSE DoReload(max_comment_id)

reload(force) ==
    IF ~modified /\ ~force
    THEN UNCHANGED storeVars
    ELSE DoReload(max_comment_id)

(***************************************************************************)
(* JournalStorage.add_entry / add_comment, as one step each.               *)
(***************************************************************************)
EntryFileName(entry) == JsFile(entry.itemid)
\* Mutant: the comment's file is named by its entry.
CommentFileNameByEntry(comment) == JsFile(comment.entry_id)

CommentFileName(comment) == JsFile(comment.comment_id)

\* self.entries[entry_id] = entry
IndexEntry(index, entry) ==
    [i \in DOMAIN index \cup {entry.itemid} |->
        IF i = entry.itemid THEN entry ELSE index[i]]

\* self.comments[entry_id].append(comment)
IndexComment(index, comment) ==
    [index EXCEPT ![comment.entry_id] = Append(@, comment)]

add_entry(entry, extras) ==
    LET e == WithExtras(entry, extras)
    IN  /\ entries' = IndexEntry(entries, e)
        /\ entryFiles' = PutFile(entryFiles, EntryFileName(e),
                                 Content(TRUE, better_json_encode(e)))
        /\ modified' = TRUE

add_comment(comment, extras) ==
    LET c == WithExtras(comment, extras)
    IN  /\ comments' = IndexComment(comments, c)
        /\ commentFiles' = PutFile(commentFiles, CommentFileName(c),
                                   Content(TRUE, better_json_encode(c)))
        /\ modified' = TRUE

(***************************************************************************)
(* The store on its own: puts, reloads, and a crash at any point of a      *)
(* write.  A put is split at the points where save_file can be cut short.  *)
(***************************************************************************)
NoJob == [kind |-> "none"]

StoreEntryInputs == [itemid : EntryIds, event : Events]
StoreCommentInputs == [comment_id : CommentIds, entry_id : EntryIds, body : {Str(1)}]
NoExtras == << >>

Ready == wpc \in {"idle", "crashed"}

TargetNow(files, name) == IF name \in DOMAIN files THEN {files[name]} ELSE {}

\* add_entry up to the point where AtomicFile has created its temporary file.
AddEntryBegin ==
    /\ UNCHANGED outsideStore
    /\ last_op' = "add_entry"
    /\ Ready /\ nops < MaxOps
    /\ \E entry \in StoreEntryInputs :
         LET e == WithExtras(entry, NoExtras)
         IN  /\ entries' = IndexEntry(entries, e)
             /\ wjob' = [kind |-> "entry", name |-> EntryFileName(e),
                         data |-> better_json_encode(e)]
             /\ wprev' = TargetNow(entryFiles, EntryFileName(e))
             /\ entryFiles' = PutFile(entryFiles, TmpOf(EntryFileName(e)),
                                      Content(FALSE, better_json_encode(e)))
    /\ wpc' = "tmp"
    /\ nops' = nops + 1
    /\ UNCHANGED <<comments, max_comment_id, modified, load_error, commentFiles>>

AddCommentBegin ==
    /\ UNCHANGED outsideStore
    /\ last_op' = "add_comment"
    /\ Ready /\ nops < MaxOps
    /\ \E comment \in StoreCommentInputs :
         /\ comments' = IndexComment(comments, comment)
         /\ wjob' = [kind |-> "comment", name |-> CommentFileName(comment),
                     data |-> better_json_encode(comment)]
         /\ wprev' = TargetNow(commentFiles, CommentFileName(comment))
         /\ commentFiles' = PutFile(commentFiles, TmpOf(CommentFileName(comment)),
                                    Content(FALSE, better_json_encode(comment)))
    /\ wpc' = "tmp"
    /\ nops' = nops + 1
    /\ UNCHANGED <<entries, max_comment_id, modified, load_error, entryFiles>>

\* f.write(data): the temporary file now holds the whole document.
WriteData ==
    /\ UNCHANGED outsideStore
    /\ last_op' = "write"
    /\ wpc = "tmp"
    /\ IF wjob.kind = "entry"
       THEN /\ entryFiles' = PutFile(entryFiles, TmpOf(wjob.name), Content(TRUE, wjob.data))
            /\ UNCHANGED commentFiles
       ELSE /\ commentFiles' = PutFile(commentFiles, TmpOf(wjob.name), Content(TRUE, wjob.data))
            /\ UNCHANGED entryFiles
    /\ wpc' = "written"
    /\ UNCHANGED <<storeVars, wjob, wprev, nops>>

\* AtomicFile closes: the temporary file replaces the target in one rename.
RenameTemp ==
    /\ UNCHANGED outsideStore
    /\ last_op' = "rename"
    /\ wpc = "written"
    /\ IF wjob.kind = "entry"
       THEN /\ entryFiles' = RenameFile(entryFiles, TmpOf(wjob.name), wjob.name)
            /\ UNCHANGED commentFiles
       ELSE /\ commentFiles' = RenameFile(commentFiles, TmpOf(wjob.name), wjob.name)
            /\ UNCHANGED entryFiles
    /\ wpc' = "renamed"
    /\ UNCHANGED <<storeVars, wjob, wprev, nops>>

\* Mutant: the put ends without setting the flag.
FinishPutUnflagged ==
    /\ UNCHANGED outsideStore
    /\ last_op' = "put_done"
    /\ wpc = "renamed"
    /\ wpc' = "idle"
    /\ UNCHANGED <<entries, comments, max_comment_id, modified, load_error, diskVars,
                   wjob, wprev, nops>>

\* save_json has returned: self.modified = True ends the put.
FinishPut ==
    /\ UNCHANGED outsideStore
    /\ last_op' = "put_done"
    /\ wpc = "renamed"
    /\ modified' = TRUE
    /\ wpc' = "idle"
    /\ UNCHANGED <<entries, comments, max_comment_id, load_error, diskVars, wjob, wprev, nops>>

\* The process dies during a write and a new one constructs JournalStorage over
\* the same directory: __init__ ends with reload(force=True).
Crash ==
    /\ UNCHANGED outsideStore
    /\ last_op' = "crash"
    /\ wpc \in {"tmp", "written", "renamed"}
    /\ DoReload(0)
    /\ wpc' = "crashed"
    /\ UNCHANGED <<diskVars, wjob, wprev, nops>>

Reload ==
    /\ UNCHANGED outsideStore
    /\ Ready /\ nops < MaxOps
    /\ \E force \in BOOLEAN :
          /\ reload(force)
          /\ last_op' = IF force THEN "reload_force" ELSE "reload"
    /\ wpc' = "idle"
    /\ nops' = nops + 1
    /\ UNCHANGED <<wjob, wprev>>
    /\ UNCHANGED diskVars

\* The state of a JournalStorage constructed over an empty directory.
InitStorage ==
    /\ entries = << >>
    /\ comments = NoComments
    /\ max_comment_id = 0
    /\ modified = FALSE
    /\ load_error = FALSE
    /\ entryFiles = << >>
    /\ commentFiles = << >>
    /\ wpc = "idle"
    /\ wjob = NoJob
    /\ wprev = {}
    /\ nops = 0
    /\ last_op = "init"

InitRemote ==
    /\ rlog = << >>
    /\ clock = 0

InitBackup ==
    /\ pc = "idle"
    /\ items = << >>
    /\ count = 0
    /\ total = None
    /\ last_sync = None
    /\ sync_list = << >>
    /\ idx = 1
    /\ downloaded = 0
    /\ nreq = 0
    /\ prev_list = {}
    /\ entryFiles0 = << >>

NoMeta == [comments |-> << >>, usermaps |-> << >>]

InitMetaLoop ==
    /\ rcomments = {}
    /\ mpc = "idle"
    /\ highest = 0
    /\ maxid = 0
    /\ all_meta = NoMeta
    /\ mreq = 0
    /\ mseed = 0

\* CommentsTree.__init__: an empty root list.
InitTree ==
    /\ tpc = "new"
    /\ tinput = << >>
    /\ tqueue = << >>
    /\ kids = (0 :> << >>)
    /\ deleted_comments = << >>
    /\ skip = << >>

\* A path is the sequence of its characters; a resolved path is the sequence
\* of its components, each a sequence of characters.  The store is at /s.
RootPath == <<"/", "s">>
RootDir == << <<"s">> >>
JsonDir == RootDir \o << <<"_json">> >>

\* JournalStorage.__init__ has made _json/entries and _json/comments.
InitPath ==
    /\ fs_dirs = {<< >>, RootDir, JsonDir,
                  JsonDir \o << <<"entries">> >>, JsonDir \o << <<"comments">> >>}
    /\ fs_files = {}
    /\ pcall = [op |-> "none", arg |-> << >>, target |-> RootDir]
    /\ presult = "ok"
    /\ fs_dirs0 = fs_dirs
    /\ fs_files0 = {}
    /\ pops = 0

\* self.usernames = {}; self.userinfo = {}; no file yet.
InitUser ==
    /\ usernames = << >>
    /\ usernamesFile = {}
    /\ userinfo = << >>
    /\ userinfoFile = {}
    /\ put_error = FALSE

InitRender ==
    /\ nstate = << >>
    /\ shown = << >>

InitComments ==
    /\ cpc = "idle"
    /\ session = 0
    /\ sessions = {}
    /\ nsess = 0
    /\ rsess = {}
    /\ nexpire = 0
    /\ bpos = 0
    /\ bodies = << >>
    /\ breq = 0
    /\ last_page = {}
    /\ pqueue = << >>
    /\ cput = {}
    /\ comments0 = NoComments
    /\ commentFiles0 = << >>
    /\ npass = 0

InitAll ==
    /\ InitStorage /\ InitRemote /\ InitBackup /\ InitMetaLoop /\ InitTree /\ InitPath
    /\ InitUser /\ InitComments /\ InitRender

InitStore == InitAll

vars == <<entries, comments, max_comment_id, modified, load_error,
          entryFiles, commentFiles, wpc, wjob, wprev, nops, last_op,
          rlog, clock, pc, items, count, total, last_sync,
          sync_list, idx, downloaded, nreq, prev_list, entryFiles0,
          rcomments, mpc, highest, maxid, all_meta, mreq, mseed,
          tpc, tinput, tqueue, kids, deleted_comments, skip,
          fs_dirs, fs_files, pcall, presult, fs_dirs0, fs_files0, pops,
          usernames, usernamesFile, userinfo, userinfoFile, put_error,
          nstate, shown,
          cpc, session, sessions, nsess, rsess, nexpire, bpos, bodies, breq,
          last_page, pqueue, cput, comments0, commentFiles0, npass>>

NextStore ==
    \/ AddEntryBegin
    \/ AddCommentBegin
    \/ WriteData
    \/ RenameTemp
    \/ FinishPut
    \/ Crash
    \/ Reload

SpecStore == InitStore /\ [][NextStore]_vars

(***************************************************************************)
(* The remote journal.  syncitems(lastsync) reports the items changed      *)
(* after lastsync, oldest first and at most PageSize of them, with the     *)
(* number it returns (count) and the number there are (total).  An item is *)
(* a journal entry ("L") or something else ("C").                          *)
(***************************************************************************)
Item(kind, id, time) == [kind |-> kind, id |-> id, time |-> time]

SeqRange(s) == {s[i] : i \in 1..Len(s)}

Take(s, n) == SubSeq(s, 1, IF Len(s) < n THEN Len(s) ELSE n)

ChangedAfter(lastsync) ==
    SelectSeq(rlog, LAMBDA e : lastsync = None \/ e.time > lastsync)

syncitems(lastsync) ==
    LET matching == ChangedAfter(lastsync)
        page == Take(matching, PageSize)
    IN  [count |-> Len(page), total |-> Len(matching), syncitems |-> page]

RemoteTime(id) == (CHOOSE e \in SeqRange(rlog) : e.kind = "L" /\ e.id = id).time

\* The text of entry 1 is not ASCII: XML-RPC hands it over as a Binary.
RemoteEvent(id) ==
    [itemid |-> id,
     event |-> IF id = 1 THEN Bin(RemoteTime(id)) ELSE Str(RemoteTime(id))]

\* An entry is posted or edited, or another item changes: it moves to the end
\* of the log with a new time.
RemoteChange ==
    /\ UNCHANGED outsideSync
    /\ last_op' = "remote"
    /\ clock < MaxClock
    /\ \E kind \in {"L", "C"}, id \in EntryIds :
         /\ rlog' = Append(SelectSeq(rlog, LAMBDA e : ~(e.kind = kind /\ e.id = id)),
                           Item(kind, id, clock + 1))
    /\ clock' = clock + 1
    /\ UNCHANGED <<storeVars, diskVars, writeVars, pc, listVars, passVars>>

(***************************************************************************)
(* FeedBackup.list_entries                                                 *)
(***************************************************************************)
\* [(int(e['item'][2:]), e['time']) for e in sync['syncitems'] if e['item'].startswith('L-')]
JournalItems(page) ==
    LET kept == SelectSeq(page, LAMBDA e : e.kind = "L")
    IN  [i \in 1..Len(kept) |-> <<kept[i].id, kept[i].time>>]

\* backup is called: list_entries sets up its locals.
StartBackup ==
    /\ UNCHANGED outsideSync
    /\ last_op' = "start"
    /\ pc = "idle"
    /\ pc' = "list"
    /\ items' = << >>
    /\ count' = 0
    /\ total' = None
    /\ last_sync' = None
    /\ nreq' = 0
    /\ sync_list' = << >>
    /\ idx' = 1
    /\ downloaded' = 0
    /\ entryFiles0' = entryFiles
    /\ UNCHANGED <<storeVars, diskVars, writeVars, remoteVars, prev_list>>

\* One turn of `while count != total`, with the test that follows it; when the
\* loop ends, list_entries returns items to backup.
ListPage ==
    /\ UNCHANGED outsideSync
    /\ last_op' = "list"
    /\ pc = "list"
    /\ count # total
    /\ nreq < MaxReq
    /\ LET sync == syncitems(last_sync)
           journalitems == JournalItems(sync.syncitems)
       IN  /\ count' = sync.count
           /\ total' = sync.total
           /\ items' = items \o journalitems
           /\ last_sync' = IF journalitems # << >>
                           THEN (items \o journalitems)[Len(items \o journalitems)][2]
                           ELSE last_sync
           /\ IF sync.count = sync.total
              THEN pc' = "entries" /\ sync_list' = items \o journalitems
              ELSE pc' = "list" /\ UNCHANGED sync_list
    /\ nreq' = nreq + 1
    /\ UNCHANGED <<storeVars, diskVars, writeVars, remoteVars, idx, downloaded,
                   prev_list, entryFiles0>>

(***************************************************************************)
(* FeedBackup.backup: the loop over the listed entries.                    *)
(***************************************************************************)
\* Mutant: an entry the store holds is skipped whatever its sync_time.
UnchangedIfStored(entry_id, sync_time) == entry_id \in DOMAIN entries

\* entry_id in self.storage and 'sync_time' in entry and entry['sync_time'] == sync_time
Unchanged(entry_id, sync_time) ==
    /\ entry_id \in DOMAIN entries
    /\ "sync_time" \in DOMAIN entries[entry_id]
    /\ entries[entry_id].sync_time = sync_time

\* continue
SkipEntry ==
    /\ UNCHANGED outsideSync
    /\ last_op' = "skip"
    /\ pc = "entries"
    /\ idx <= Len(sync_list)
    /\ Unchanged(sync_list[idx][1], sync_list[idx][2])
    /\ idx' = idx + 1
    /\ UNCHANGED <<storeVars, diskVars, writeVars, remoteVars, pc, listVars,
                   sync_list, downloaded, prev_list, entryFiles0>>

\* getevents_one answers with one event: it is put with the listed time.
FetchEntry ==
    /\ UNCHANGED outsideSync
    /\ last_op' = "fetch"
    /\ pc = "entries"
    /\ idx <= Len(sync_list)
    /\ ~Unchanged(sync_list[idx][1], sync_list[idx][2])
    /\ add_entry(RemoteEvent(sync_list[idx][1]), [sync_time |-> sync_list[idx][2]])
    /\ downloaded' = downloaded + 1
    /\ idx' = idx + 1
    /\ UNCHANGED <<comments, max_comment_id, load_error, commentFiles, writeVars,
                   remoteVars, pc, listVars, sync_list, prev_list, entryFiles0>>

\* Mutant: the entry whose fetch is wrong is passed over and the loop goes on.
FetchEntryPassedOver ==
    /\ UNCHANGED outsideSync
    /\ last_op' = "assert"
    /\ pc = "entries"
    /\ idx <= Len(sync_list)
    /\ ~Unchanged(sync_list[idx][1], sync_list[idx][2])
    /\ idx' = idx + 1
    /\ UNCHANGED <<storeVars, diskVars, writeVars, remoteVars, pc, listVars,
                   sync_list, downloaded, prev_list, entryFiles0>>

\* getevents_one answers with no event or several: the assert fails and backup
\* ends with the AssertionError.
FetchEntryFails ==
    /\ UNCHANGED outsideSync
    /\ last_op' = "assert"
    /\ pc = "entries"
    /\ idx <= Len(sync_list)
    /\ ~Unchanged(sync_list[idx][1], sync_list[idx][2])
    /\ pc' = "failed"
    /\ UNCHANGED <<storeVars, diskVars, writeVars, remoteVars, listVars, passVars>>

\* The loop is over: the entry part of the pass is complete.
EntriesDone ==
    /\ UNCHANGED outsideSync
    /\ last_op' = "entries_done"
    /\ pc = "entries"
    /\ idx > Len(sync_list)
    /\ pc' = "comments"
    /\ UNCHANGED <<storeVars, diskVars, writeVars, remoteVars, listVars, passVars>>

\* backup returns, or its caller has seen the error: the next call may follow.
EndBackup ==
    /\ UNCHANGED outsideSync
    /\ last_op' = "end"
    /\ pc \in {"comments", "failed"}
    /\ pc' = "idle"
    /\ prev_list' = IF pc = "comments" THEN {sync_list} ELSE {}
    /\ UNCHANGED <<storeVars, diskVars, writeVars, remoteVars, listVars,
                   sync_list, idx, downloaded, entryFiles0>>

\* main calls storage.reload() after backup.
ReloadAfterBackup ==
    /\ UNCHANGED outsideSync
    /\ pc = "idle"
    /\ \E force \in BOOLEAN :
          /\ reload(force)
          /\ last_op' = IF force THEN "reload_force" ELSE "reload"
    /\ UNCHANGED <<diskVars, writeVars, remoteVars, pc, listVars, passVars>>

InitSync == InitAll

NextSync ==
    \/ RemoteChange
    \/ StartBackup
    \/ ListPage
    \/ SkipEntry
    \/ FetchEntry
    \/ FetchEntryFails
    \/ EntriesDone
    \/ EndBackup
    \/ ReloadAfterBackup

SpecSync == InitSync /\ [][NextSync]_vars

\* The listing on its own, against any remote log.
NextList ==
    \/ (pc = "idle" /\ RemoteChange)
    \/ StartBackup
    \/ ListPage

SpecList == InitSync /\ [][NextList]_vars

(***************************************************************************)
(* The remote's comment metadata.  fetch_comment_meta(startid) reports the *)
(* highest comment id the server holds (maxid) and the metadata of the     *)
(* comments after startid, lowest id first and at most MetaPageSize of     *)
(* them, with the names of their posters.                                  *)
(***************************************************************************)
RemoteCommentIds == 1..MaxRemoteComment

\* The k smallest members of S.
RECURSIVE Smallest(_, _)
Smallest(S, k) ==
    IF k = 0 \/ S = {}
    THEN {}
    ELSE LET m == CHOOSE x \in S : \A y \in S : x <= y
         IN  {m} \cup Smallest(S \ {m}, k - 1)

\* Comments with an even id are anonymous (poster id 0); the others are by user 1.
PosterOf(id) == id % 2
NameOf(poster) == Str(poster)
CommentMeta(id) == [posterid |-> PosterOf(id), state |-> "A"]

fetch_comment_meta(startid) ==
    LET page == Smallest({c \in rcomments : c > startid}, MetaPageSize)
    IN  [maxid |-> SetMax(rcomments),
         comments |-> [c \in page |-> CommentMeta(c)],
         usermaps |-> [p \in {PosterOf(c) : c \in page} \ {0} |-> NameOf(p)]]

\* dict.update
Update(old, new) ==
    [k \in DOMAIN old \cup DOMAIN new |-> IF k \in DOMAIN new THEN new[k] ELSE old[k]]

\* A comment is posted, at any time: it gets an id above every id the server holds.
RemoteComment ==
    /\ UNCHANGED outsideMeta
    /\ last_op' = "remote_comment"
    /\ \E c \in RemoteCommentIds :
         /\ c > SetMax(rcomments)
         /\ rcomments' = rcomments \cup {c}
    /\ UNCHANGED <<mpc, highest, maxid, all_meta, mreq, mseed>>

(***************************************************************************)
(* FeedBackup.get_meta_since                                               *)
(***************************************************************************)
\* Mutant: the watermark is not moved.
HighestStuck(old, ids) == old

\* Mutant: the watermark is the highest id of the page.
HighestOfPage(old, ids) == SetMax(ids)

\* for id in meta['comments']: highest = max(int(id), int(highest))
HighestAfter(old, ids) == Max(old, SetMax(ids))

\* get_meta_since is called with the store's max_comment_id: 0, or the id of
\* a comment an earlier pass fetched from this server.
StartMeta ==
    /\ UNCHANGED outsideMeta
    /\ last_op' = "start_meta"
    /\ mpc = "idle"
    /\ \E seed \in {0} \cup rcomments :
         /\ highest' = seed
         /\ maxid' = seed + 1
         /\ mseed' = seed
    /\ all_meta' = NoMeta
    /\ mreq' = 0
    /\ mpc' = "meta"
    /\ UNCHANGED rcomments

\* One turn of `while highest < maxid`.
MetaPage ==
    /\ UNCHANGED outsideMeta
    /\ last_op' = "meta_page"
    /\ mpc = "meta"
    /\ highest < maxid
    /\ mreq < MaxMetaReq
    /\ LET meta == fetch_comment_meta(highest)
       IN  /\ maxid' = meta.maxid
           /\ highest' = HighestAfter(highest, DOMAIN meta.comments)
           /\ all_meta' = [comments |-> Update(all_meta.comments, meta.comments),
                           usermaps |-> Update(all_meta.usermaps, meta.usermaps)]
    /\ mreq' = mreq + 1
    /\ UNCHANGED <<rcomments, mpc, mseed>>

\* The loop is over: all['maxid'] = maxid; return all.
MetaReturn ==
    /\ UNCHANGED outsideMeta
    /\ last_op' = "meta_return"
    /\ mpc = "meta"
    /\ ~(highest < maxid)
    /\ mpc' = "done"
    /\ UNCHANGED <<rcomments, highest, maxid, all_meta, mreq, mseed>>

\* The caller has the result; another call may follow.
MetaReset ==
    /\ UNCHANGED outsideMeta
    /\ last_op' = "meta_reset"
    /\ mpc = "done"
    /\ mpc' = "idle"
    /\ highest' = 0
    /\ maxid' = 0
    /\ all_meta' = NoMeta
    /\ mreq' = 0
    /\ mseed' = 0
    /\ UNCHANGED rcomments

NextMeta ==
    \/ RemoteComment
    \/ StartMeta
    \/ MetaPage
    \/ MetaReturn
    \/ MetaReset

SpecMeta == InitAll /\ [][NextMeta]_vars

\* C4: get_meta_since ends against every comment set: every request but the
\* last moves the watermark to a comment it had not reached, so a call makes
\* at most one request per remote comment and one more; and when it returns the
\* watermark has reached the maxid the server reported.
C4_MetaLoopTerminates ==
    /\ mpc \in {"meta", "done"} => mreq <= Cardinality(rcomments) + 1
    /\ mpc = "meta" /\ mreq > 0 /\ highest < maxid => highest \in rcomments
    /\ mpc = "done" => highest >= maxid /\ mreq >= 1

\* C4 witness: a call over three remote comments has returned after more than
\* one page, with the watermark at the server's maxid.
C4_Witness ==
    /\ mpc = "done"
    /\ Cardinality(rcomments) = 3
    /\ mreq = 2
    /\ highest = maxid
    /\ highest = SetMax(rcomments)
    /\ DOMAIN all_meta.comments = rcomments

(***************************************************************************)
(* Entry sync.                                                             *)
(***************************************************************************)
\* The time listed with the last occurrence of entry_id in the listing.
LastListedTime(listing, entry_id) ==
    LET last == CHOOSE i \in 1..Len(listing) :
                    /\ listing[i][1] = entry_id
                    /\ \A j \in (i + 1)..Len(listing) : listing[j][1] # entry_id
    IN  listing[last][2]

ListedIds(listing) == {listing[i][1] : i \in 1..Len(listing)}

\* C1: when the entry part of a pass completes and the pass before it completed
\* with the same listing, the second pass has fetched no entry and written no
\* entry file: _json/entries is what it was when the pass began.
C1_SecondPassFetchesNothing ==
    (pc = "comments" /\ prev_list = {sync_list}) =>
        /\ downloaded = 0
        /\ entryFiles = entryFiles0

\* C1 witness: a second pass over an unchanged listing of two entries is
\* complete, and it skipped both.
C1_Witness ==
    /\ pc = "comments"
    /\ prev_list = {sync_list}
    /\ Len(sync_list) = 2
    /\ downloaded = 0
    /\ last_op = "entries_done"

\* What the store holds for a listed pair that has just been fetched.
FetchedRecord(entry_id, sync_time) ==
    [itemid |-> entry_id, event |-> RemoteEvent(entry_id).event, sync_time |-> sync_time]

\* C2: the loop fetches the entry of a listed pair exactly when the store does
\* not hold the id or holds it with another sync_time, the fetched record
\* replaces the stored one whole (in the index and on disk), a skipped pair
\* changes nothing; and once the loop has completed, every listed id is stored
\* with the time of its last listed occurrence.
C2_FetchIffStale ==
    /\ [](pc = "comments" =>
            \A id \in ListedIds(sync_list) :
                /\ id \in DOMAIN entries
                /\ entries[id].sync_time = LastListedTime(sync_list, id))
    /\ [][(pc = "entries" /\ idx' = idx + 1) =>
            LET id == sync_list[idx][1]
                t == sync_list[idx][2]
                stale == \/ id \notin DOMAIN entries
                         \/ "sync_time" \notin DOMAIN entries[id]
                         \/ entries[id].sync_time # t
            IN  IF stale
                THEN /\ downloaded' = downloaded + 1
                     /\ entries' = IndexEntry(entries, FetchedRecord(id, t))
                     /\ entryFiles' = PutFile(entryFiles, JsFile(id),
                            Content(TRUE, better_json_encode(FetchedRecord(id, t))))
                ELSE /\ downloaded' = downloaded
                     /\ entries' = entries
                     /\ entryFiles' = entryFiles]_vars

\* C2 witness: a pass has completed whose listing names one entry twice, with
\* two times, and it fetched the entry both times.
C2_Witness ==
    /\ pc = "comments"
    /\ Len(sync_list) = 3
    /\ sync_list[1][1] = sync_list[3][1]
    /\ sync_list[1][2] # sync_list[3][2]
    /\ downloaded = 3
    /\ entries[sync_list[3][1]].sync_time = sync_list[3][2]

\* C3 (as claimed): the listing loop ends for every remote log.  Against a log
\* that does not change, a loop that ends never repeats a request, so it makes
\* at most one request per item and one more, and it collects no more items
\* than the log holds.
C3_ListingTerminates ==
    pc = "list" =>
        /\ nreq <= Len(rlog) + 1
        /\ Len(items) <= Len(rlog)

(***************************************************************************)
(* What the store holds.                                                   *)
(***************************************************************************)
PersistedEntryIds == {entryFiles[f].data.itemid : f \in GlobJs(entryFiles)}
PersistedCommentIds == {commentFiles[f].data.comment_id : f \in GlobJs(commentFiles)}

IndexedEntryIds == DOMAIN entries
IndexedComments(e) == {comments[e][i] : i \in 1..Len(comments[e])}
IndexedCommentIds == UNION {{c.comment_id : c \in IndexedComments(e)} : e \in EntryIds}

\* The records of the in-memory index that have comment id n, with their places.
CommentPlaces(n) ==
    {<<e, i>> \in EntryIds \X (1..MaxOps) :
        i <= Len(comments[e]) /\ comments[e][i].comment_id = n}

\* What a reader of record wjob.name sees in the index: nothing or one record.
RecordSeen ==
    IF wjob.kind = "entry"
    THEN IF wjob.name.n \in DOMAIN entries THEN {entries[wjob.name.n]} ELSE {}
    ELSE {comments[p[1]][p[2]] : p \in CommentPlaces(wjob.name.n)}

TargetFile ==
    IF wjob.kind = "entry"
    THEN TargetNow(entryFiles, wjob.name)
    ELSE TargetNow(commentFiles, wjob.name)

\* C8: a crash at any point of a record's write leaves, for the reload that
\* follows, either the record's previous complete version (or none) or the new
\* complete one: no record file is ever partial, the target is the old content
\* until the rename, and the reload after the crash loads without error exactly
\* the old or the new record.
C8_CrashLeavesOldOrNew ==
    /\ \A f \in DOMAIN entryFiles : f.ext = "js" => entryFiles[f].full
    /\ \A f \in DOMAIN commentFiles : f.ext = "js" => commentFiles[f].full
    /\ wpc \in {"tmp", "written"} => TargetFile = wprev
    /\ wpc = "renamed" => TargetFile = {Content(TRUE, wjob.data)}
    /\ wpc = "crashed" =>
          /\ ~load_error
          /\ \/ RecordSeen = {c.data : c \in wprev}
             \/ RecordSeen = {wjob.data}

\* C8 witness: a crash cut the overwrite of an existing entry short while the
\* temporary file was still partial, and the reload shows the old version.
C8_Witness ==
    /\ wpc = "crashed"
    /\ wjob.kind = "entry"
    /\ wprev # {}
    /\ TmpOf(wjob.name) \in DOMAIN entryFiles
    /\ ~entryFiles[TmpOf(wjob.name)].full
    /\ RecordSeen = {c.data : c \in wprev}
    /\ RecordSeen # {wjob.data}

\* C9: the entry ids and the comment ids on disk never shrink, and the index
\* a reload builds holds every id that was on disk before it.
C9_IdsNeverShrink ==
    [][/\ PersistedEntryIds \subseteq PersistedEntryIds'
       /\ PersistedCommentIds \subseteq PersistedCommentIds'
       /\ (last_op' \in {"reload", "reload_force", "crash"} /\ ~load_error') =>
             /\ PersistedEntryIds \subseteq IndexedEntryIds'
             /\ PersistedCommentIds \subseteq IndexedCommentIds']_vars

\* C9 witness: puts of two different comments have each replaced only their
\* own file, and the reload that followed rebuilt the index with both ids.
C9_Witness ==
    /\ last_op = "reload"
    /\ ~modified
    /\ ~load_error
    /\ PersistedCommentIds = CommentIds
    /\ IndexedCommentIds = CommentIds
    /\ nops = MaxOps

\* C10 (as claimed): once a put has completed, the index holds one record per
\* entry id and one record per comment id.
C10_OneRecordPerId ==
    Ready =>
        /\ \A i \in DOMAIN entries : entries[i].itemid = i
        /\ \A n \in CommentIds : Cardinality(CommentPlaces(n)) <= 1

(***************************************************************************)
(* CommentsTree.  FeedRenderer.generate_entries takes the comments of one  *)
(* entry as the store lists them, sorts them by comment_id and adds them   *)
(* one by one; render then calls mark_orphans.  A node is known by its     *)
(* comment id; the list a node owns is kids[id], and kids[0] is self.tree. *)
(***************************************************************************)
CommentStates == {"A", "D", "B"}
TreeIds == 1..MaxTree

\* A comment list of one entry: the ids o in the order they are stored, with
\* the parent id p[n] and the state st[n] of comment n.
TreeList(o, p, st) ==
    [i \in 1..Len(o) |-> [comment_id |-> o[i],
                          comment_parent_id |-> p[o[i]],
                          state |-> st[o[i]]]]

\* The parent ids of the comments S: 0, the id of another comment of S, or
\* the id of a comment the list does not hold.
ParentIds(S) == {q \in [S -> 0..(MaxTree + 1)] : \A n \in S : q[n] # n}

\* list.insert of c into a sorted list, behind the records that do not come
\* after it (sorted is stable).
InsertByCommentId(c, s) ==
    LET k == Cardinality({i \in 1..Len(s) : s[i].comment_id <= c.comment_id})
    IN  SubSeq(s, 1, k) \o <<c>> \o SubSeq(s, k + 1, Len(s))

\* The list as it is stored.
AsStored(list) == list

RECURSIVE SortedByCommentId(_)
\* sorted(comments, key=lambda x: x['comment_id'])
SortedByCommentId(list) ==
    IF list = << >> THEN << >>
    ELSE InsertByCommentId(list[Len(list)],
                           SortedByCommentId(SubSeq(list, 1, Len(list) - 1)))

\* RuntimeError("Top-level search shouldn't fail")
RuntimeError == 0 - 2

RECURSIVE find_place_by_parent_id(_, _)
RECURSIVE SearchSublevels(_, _, _)

\* The owner of the list a comment with this parent id is appended to, None
\* from a sublevel search that found nothing, RuntimeError from a top-level
\* search that found nothing.
find_place_by_parent_id(comment_id, sublevel) ==
    IF comment_id = 0 THEN 0
    ELSE LET context == IF sublevel # None THEN kids[sublevel] ELSE kids[0]
         IN  IF \E n \in 1..Len(context) : context[n] = comment_id
             THEN comment_id
             ELSE LET place == SearchSublevels(comment_id, context, 1)
                  IN  IF place # None THEN place
                      ELSE IF sublevel # None THEN None
                      ELSE RuntimeError

\* for c in context: the first non-empty c.comments in which the id is found.
SearchSublevels(comment_id, context, n) ==
    IF n > Len(context) THEN None
    ELSE LET c == context[n]
             place == IF kids[c] # << >>
                      THEN find_place_by_parent_id(comment_id, c)
                      ELSE None
         IN  IF place # None THEN place
             ELSE SearchSublevels(comment_id, context, n + 1)

\* for entry_id, entry in ...: comments = self.storage.comments[entry_id];
\* comments_tree = CommentsTree(...); the loop runs over the sorted list.
BeginEntry ==
    /\ UNCHANGED outsideTree
    /\ last_op' = "begin_entry"
    /\ tpc = "new"
    /\ \E S \in SUBSET TreeIds :
          \E o \in Orderings(S), p \in ParentIds(S), st \in [S -> CommentStates] :
              /\ tinput' = TreeList(o, p, st)
              /\ tqueue' = SortedByCommentId(TreeList(o, p, st))
    /\ tpc' = "build"
    /\ UNCHANGED <<kids, deleted_comments, skip>>

\* comments_tree.add_comment(comment), the place being found.
AddComment ==
    /\ UNCHANGED outsideTree
    /\ last_op' = "tree_add_comment"
    /\ tpc = "build"
    /\ tqueue # << >>
    /\ LET comment == Head(tqueue)
           id == comment.comment_id
           place == find_place_by_parent_id(comment.comment_parent_id, None)
       IN  /\ place # RuntimeError
           /\ kids' = [o \in DOMAIN kids \cup {id} |->
                          IF o = id THEN << >>
                          ELSE IF o = place THEN Append(kids[o], id)
                          ELSE kids[o]]
           /\ skip' = [n \in DOMAIN skip \cup {id} |->
                          IF n = id THEN FALSE ELSE skip[n]]
           /\ deleted_comments' = IF comment.state \in {"D", "B"}
                                  THEN Append(deleted_comments, id)
                                  ELSE deleted_comments
    /\ tqueue' = Tail(tqueue)
    /\ UNCHANGED <<tpc, tinput>>

\* add_comment recording a hidden comment before it looks for the place.
AddCommentMarksFirst ==
    /\ UNCHANGED outsideTree
    /\ last_op' = "tree_add_comment_raises"
    /\ tpc = "build"
    /\ tqueue # << >>
    /\ find_place_by_parent_id(Head(tqueue).comment_parent_id, None) = RuntimeError
    /\ tpc' = "error"
    /\ deleted_comments' = IF Head(tqueue).state \in {"D", "B"}
                           THEN Append(deleted_comments, Head(tqueue).comment_id)
                           ELSE deleted_comments
    /\ UNCHANGED <<tinput, tqueue, kids, skip>>

\* comments_tree.add_comment(comment), the top-level search raising: the
\* rendering ends there.
AddCommentRaises ==
    /\ UNCHANGED outsideTree
    /\ last_op' = "tree_add_comment_raises"
    /\ tpc = "build"
    /\ tqueue # << >>
    /\ find_place_by_parent_id(Head(tqueue).comment_parent_id, None) = RuntimeError
    /\ tpc' = "error"
    /\ UNCHANGED <<tinput, tqueue, kids, deleted_comments, skip>>

\* list.insert of an id into a descending list.
InsertDescending(c, s) ==
    LET k == Cardinality({i \in 1..Len(s) : s[i] >= c})
    IN  SubSeq(s, 1, k) \o <<c>> \o SubSeq(s, k + 1, Len(s))

\* The ids from the smallest to the largest.
RECURSIVE AscendingById(_)
AscendingById(ids) ==
    IF ids = << >> THEN << >>
    ELSE LET rest == AscendingById(SubSeq(ids, 1, Len(ids) - 1))
             c == ids[Len(ids)]
             k == Cardinality({i \in 1..Len(rest) : rest[i] <= c})
         IN  SubSeq(rest, 1, k) \o <<c>> \o SubSeq(rest, k + 1, Len(rest))

RECURSIVE DescendingById(_)
\* sorted(self.deleted_comments, key=lambda x: x.comment_id, reverse=True)
DescendingById(ids) ==
    IF ids = << >> THEN << >>
    ELSE InsertDescending(ids[Len(ids)],
                          DescendingById(SubSeq(ids, 1, Len(ids) - 1)))

\* Mutant: every hidden comment is marked, whatever its sub-comments are.
MarkEachHidden(cs, sk) ==
    [n \in DOMAIN sk |-> \E i \in 1..Len(cs) : cs[i] = n]

RECURSIVE MarkEach(_, _)
\* The loop of mark_orphans: c._skip = (no sub-comment of c is not skipped).
MarkEach(cs, sk) ==
    IF cs = << >> THEN sk
    ELSE LET c == Head(cs)
         IN  MarkEach(Tail(cs),
                      [sk EXCEPT ![c] =
                          {x \in 1..Len(kids[c]) : ~sk[kids[c][x]]} = {}])

\* render(): mark_orphans() on the tree once every comment is added.
MarkOrphans ==
    /\ UNCHANGED outsideTree
    /\ last_op' = "mark_orphans"
    /\ tpc = "build"
    /\ tqueue = << >>
    /\ skip' = MarkEach(DescendingById(deleted_comments), skip)
    /\ tpc' = "marked"
    /\ UNCHANGED <<tinput, tqueue, kids, deleted_comments>>

NextTree == BeginEntry \/ AddComment \/ AddCommentRaises \/ MarkOrphans

SpecTree == InitAll /\ [][NextTree]_vars

TInputIds == {tinput[i].comment_id : i \in 1..Len(tinput)}
TRecord(n) == tinput[CHOOSE i \in 1..Len(tinput) : tinput[i].comment_id = n]
TreeNodeIds == DOMAIN kids \ {0}
TreeDone == tpc \in {"build", "marked"} /\ tqueue = << >> /\ tinput # << >>

\* The owners of the lists node n is in.
PlacedIn(n) == {o \in DOMAIN kids : \E k \in 1..Len(kids[o]) : kids[o][k] = n}

RECURSIVE ReachesRoot(_, _)
ReachesRoot(n, fuel) ==
    IF n = 0 THEN TRUE
    ELSE IF fuel = 0 \/ PlacedIn(n) = {} THEN FALSE
    ELSE ReachesRoot(CHOOSE o \in PlacedIn(n) : TRUE, fuel - 1)

\* Every input comment is a node, once, in the list of its declared parent;
\* every list is in ascending id order (so the tree is the same for every
\* order of the input); every ancestor chain ends at the root list.
TreeComplete ==
    /\ TreeNodeIds = TInputIds
    /\ \A n \in TInputIds :
          /\ PlacedIn(n) = {TRecord(n).comment_parent_id}
          /\ ReachesRoot(n, Cardinality(TInputIds))
    /\ \A o \in DOMAIN kids :
          /\ \A i, j \in 1..Len(kids[o]) : i < j => kids[o][i] < kids[o][j]

ParentsInList ==
    \A i \in 1..Len(tinput) :
        \/ tinput[i].comment_parent_id = 0
        \/ /\ tinput[i].comment_parent_id \in TInputIds
           /\ tinput[i].comment_parent_id # tinput[i].comment_id

ParentsComeFirst ==
    \A i \in 1..Len(tinput) :
        \/ tinput[i].comment_parent_id = 0
        \/ /\ tinput[i].comment_parent_id \in TInputIds
           /\ tinput[i].comment_parent_id < tinput[i].comment_id

\* C5 (as claimed): for a list in which every non-zero parent id is the id of
\* another comment of the list, the build succeeds and the tree is complete.
C5_BuildsForEveryParentInList ==
    ParentsInList =>
        /\ tpc # "error"
        /\ TreeDone => TreeComplete

\* C5 (amended): for a list in which every non-zero parent id is the id of
\* another comment of the list with a smaller comment id, the build of the
\* list sorted by comment id succeeds, the node ids are the input ids, every
\* node is in the list of its parent and its ancestor chain ends at a root,
\* whatever the order of the input list.
C5_BuildsWhenParentsComeFirst ==
    ParentsComeFirst =>
        /\ tpc # "error"
        /\ TreeDone => TreeComplete

\* C5 witness: a chain 1 <- 2 <- 3 given with the last comment first is built.
C5_Witness ==
    /\ TreeDone
    /\ ParentsComeFirst
    /\ Len(tinput) = 3
    /\ tinput[1].comment_id = 3
    /\ kids[0] = <<1>> /\ kids[1] = <<2>> /\ kids[2] = <<3>>
    /\ TreeComplete

Hidden(n) == TRecord(n).state \in {"D", "B"}

\* C6: after mark_orphans, a node is marked prunable exactly when it is
\* deleted or banned and every one of its direct children is marked prunable
\* (or it has none); a comment that is not hidden is never marked.
C6_PrunableIffHiddenAndChildrenPrunable ==
    tpc = "marked" =>
        \A n \in TreeNodeIds :
            skip[n] <=> (Hidden(n) /\ \A k \in 1..Len(kids[n]) : skip[kids[n][k]])

\* C6 witness: deleted comment 1 has one child, the childless deleted comment
\* 2, and both are marked.
C6_Witness ==
    /\ tpc = "marked"
    /\ TInputIds = {1, 2}
    /\ TRecord(1).state = "D" /\ TRecord(2).state = "D"
    /\ kids[0] = <<1>> /\ kids[1] = <<2>> /\ kids[2] = << >>
    /\ skip[1] /\ skip[2]

(***************************************************************************)
(* JournalStorage.ensure_dir and save_file over a file system.  A path     *)
(* argument is a string over the characters "/", "s", "x" and the pair of  *)
(* dots ".." (one character here); the file system holds resolved paths.   *)
(***************************************************************************)
PathChars == {"/", "..", "s", "x"}
PathArgs == UNION {[1..n -> PathChars] : n \in 0..MaxPathLen}

\* str.startswith
startswith(str, prefix) ==
    Len(str) >= Len(prefix) /\ SubSeq(str, 1, Len(prefix)) = prefix

\* os.path.join(a, b)
os_path_join(a, b) ==
    IF startswith(b, <<"/">>) THEN b
    ELSE IF a = << >> \/ a[Len(a)] = "/" THEN a \o b
    ELSE a \o <<"/">> \o b

RECURSIVE SplitFrom(_, _, _, _)
SplitFrom(str, i, cur, acc) ==
    LET done == IF cur = << >> THEN acc ELSE Append(acc, cur)
    IN  IF i > Len(str) THEN done
        ELSE IF str[i] = "/" THEN SplitFrom(str, i + 1, << >>, done)
        ELSE SplitFrom(str, i + 1, Append(cur, str[i]), acc)

\* The components of a path: str.split('/') without the empty ones.
Components(str) == SplitFrom(str, 1, << >>, << >>)

RECURSIVE ResolveFrom(_, _, _)
ResolveFrom(comps, i, acc) ==
    IF i > Len(comps) THEN acc
    ELSE IF comps[i] = <<"..">>
         THEN ResolveFrom(comps, i + 1,
                          IF acc = << >> THEN acc ELSE SubSeq(acc, 1, Len(acc) - 1))
         ELSE ResolveFrom(comps, i + 1, Append(acc, comps[i]))

\* The place an absolute path names: ".." steps to the parent, and the
\* parent of the top is the top.
Resolve(comps) == ResolveFrom(comps, 1, << >>)

\* os.path.abspath of an absolute path, as components.
os_path_abspath(str) == Resolve(Components(str))

Prefixes(comps) == {SubSeq(comps, 1, k) : k \in 1..Len(comps)}
ProperPrefixes(comps) == {SubSeq(comps, 1, k) : k \in 1..(Len(comps) - 1)}

\* os.path.exists: every step of the path is there.
os_path_exists(comps) ==
    /\ \A p \in ProperPrefixes(comps) : Resolve(p) \in fs_dirs
    /\ Resolve(comps) \in fs_dirs \cup fs_files

\* os.makedirs: mkdir of every step of the path in turn; a step that is
\* there already is passed over, but not the last one, and not a file.
MakedirsStops(comps) == {p \in Prefixes(comps) : Resolve(p) \in fs_files}
MakedirsMade(comps) ==
    {Resolve(p) : p \in {q \in Prefixes(comps) :
                            \A r \in MakedirsStops(comps) : Len(q) < Len(r)}}
MakedirsRaises(comps) ==
    \/ MakedirsStops(comps) # {}
    \/ Resolve(comps) \in fs_dirs
    \/ \E p \in ProperPrefixes(comps) : Resolve(p) = Resolve(comps)

InsideRoot(place) ==
    Len(place) >= Len(RootDir) /\ SubSeq(place, 1, Len(RootDir)) = RootDir

\* self.ensure_dir(dir)
EnsureDir ==
    /\ UNCHANGED outsidePath
    /\ last_op' = "ensure_dir"
    /\ pops < MaxPathOps
    /\ pops' = pops + 1
    /\ fs_dirs0' = fs_dirs
    /\ fs_files0' = fs_files
    /\ UNCHANGED fs_files
    /\ \E dir \in PathArgs :
          LET absolute == startswith(dir, <<"/">>)
              comps == IF absolute THEN Components(dir)
                       ELSE os_path_abspath(os_path_join(RootPath, dir))
          IN  /\ pcall' = [op |-> "ensure_dir", arg |-> dir, target |-> Resolve(comps)]
              /\ IF absolute /\ ~startswith(dir, RootPath)
                 THEN /\ presult' = "ValueError"
                      /\ UNCHANGED fs_dirs
                 ELSE IF os_path_exists(comps)
                 THEN /\ presult' = "ok"
                      /\ UNCHANGED fs_dirs
                 ELSE /\ presult' = IF MakedirsRaises(comps) THEN "OSError" ELSE "ok"
                      /\ fs_dirs' = fs_dirs \cup MakedirsMade(comps)

\* self.save_file(path, filename, data): the file appears at the joined path
\* when its directory is there.
SaveFile ==
    /\ UNCHANGED outsidePath
    /\ last_op' = "save_file"
    /\ pops < MaxPathOps
    /\ pops' = pops + 1
    /\ fs_dirs0' = fs_dirs
    /\ fs_files0' = fs_files
    /\ UNCHANGED fs_dirs
    /\ \E path \in {RootPath}, filename \in PathArgs :
          LET filepath == os_path_join(path, filename)
              comps == Components(filepath)
              opens == /\ comps # << >>
                       /\ filepath[Len(filepath)] # "/"
                       /\ comps[Len(comps)] # <<"..">>
                       /\ \A p \in ProperPrefixes(comps) : Resolve(p) \in fs_dirs
                       /\ Resolve(comps) \notin fs_dirs
          IN  /\ pcall' = [op |-> "save_file", arg |-> filename, target |-> Resolve(comps)]
              /\ presult' = IF opens THEN "ok" ELSE "IOError"
              /\ fs_files' = IF opens THEN fs_files \cup {Resolve(comps)} ELSE fs_files

NextPath == EnsureDir \/ SaveFile

SpecPath == InitAll /\ [][NextPath]_vars

\* C7 (as claimed): a call of ensure_dir or save_file whose resolved path is
\* outside the store root raises the path-violation error (ValueError) and
\* changes nothing in the file system.
C7_OutsideRootRejected ==
    (pcall.op # "none" /\ ~InsideRoot(pcall.target)) =>
        /\ presult = "ValueError"
        /\ fs_dirs = fs_dirs0
        /\ fs_files = fs_files0

(***************************************************************************)
(* The store: reload.                                                      *)
(***************************************************************************)
PersistedEntryRecords == {entryFiles[f].data : f \in GlobJs(entryFiles)}
PersistedCommentRecords == {commentFiles[f].data : f \in GlobJs(commentFiles)}

\* The index holds the persisted records and nothing else: every entry under
\* its own id, every comment once in the list of its entry.
IndexIsPersisted ==
    /\ {entries[i] : i \in DOMAIN entries} = PersistedEntryRecords
    /\ \A i \in DOMAIN entries : entries[i].itemid = i
    /\ UNION {IndexedComments(e) : e \in EntryIds} = PersistedCommentRecords
    /\ \A e \in EntryIds :
          /\ \A c \in IndexedComments(e) : c.entry_id = e
          /\ \A i, j \in 1..Len(comments[e]) : comments[e][i] = comments[e][j] => i = j

\* C11: reload(force=False) on an unmodified store leaves the index as it
\* is; every other reload rebuilds it from the files, so that after puts and
\* a reload the entries and the comments in memory are exactly the persisted
\* records and the modified flag is false.
C11_ReloadRepopulates ==
    /\ [](last_op \in {"reload", "reload_force"} =>
              /\ IndexIsPersisted
              /\ ~modified)
    /\ [][(last_op' = "reload" /\ ~modified) =>
              /\ entries' = entries
              /\ comments' = comments]_vars

\* C11 witness: an entry and a comment were put, and reload(force=False) has
\* rebuilt the index from their files.
C11_Witness ==
    /\ last_op = "reload"
    /\ ~modified
    /\ wjob.kind # "none"
    /\ \E i \in DOMAIN entries : entries[i].event = Str(1)
    /\ IndexedCommentIds # {}
    /\ IndexIsPersisted

(***************************************************************************)
(* The comment metadata loop: its watermark.                               *)
(***************************************************************************)
\* C13: when get_meta_since returns, highest is the maxid the last page
\* reported and the maximum of the seed and every comment id seen in a page;
\* between the turns of the loop highest never decreases.
C13_WatermarkReachesMaxid ==
    /\ [](mpc = "done" =>
              /\ highest = maxid
              /\ highest = Max(mseed, SetMax(DOMAIN all_meta.comments)))
    /\ [][(mpc = "meta" /\ mpc' = "meta") => highest' >= highest]_vars

\* C13 witness: a call seeded with the id of a stored comment has returned
\* with the two later comments and the watermark at the maxid of its page.
C13_Witness ==
    /\ mpc = "done"
    /\ mseed > 0
    /\ Cardinality(DOMAIN all_meta.comments) = 2
    /\ highest > mseed
    /\ highest = maxid

(***************************************************************************)
(* Entry sync: the cursor of the listing, and a wrong answer to a fetch.   *)
(***************************************************************************)
\* C12 (as claimed): a page with items but no journal entry, after which
\* another request follows, moves the cursor to the time of its last item.
C12_CursorPassesOtherItems ==
    [][(last_op' = "list" /\ pc' = "list") =>
          LET page == syncitems(last_sync).syncitems
          IN  (page # << >> /\ JournalItems(page) = << >>) =>
                  last_sync' = page[Len(page)].time]_vars

\* C18 (as claimed): an entry fetch that answers with another number of events
\* than one puts nothing, leaves the store as it is, and the loop goes on
\* with the next listed entry.
C18_BadFetchSkipsOneEntry ==
    [][last_op' = "assert" =>
          /\ entries' = entries
          /\ entryFiles' = entryFiles
          /\ pc' = "entries"
          /\ idx' = idx + 1]_vars

\* C18 (amended): an entry fetch that answers with another number of events
\* than one ends the pass at that entry: nothing is put for it, the store in
\* memory and on disk is as it was, with the records put for the entries
\* listed before it, and no later entry of the listing is processed.
C18_BadFetchEndsThePass ==
    /\ [][last_op' = "assert" =>
              /\ entries' = entries
              /\ entryFiles' = entryFiles
              /\ downloaded' = downloaded
              /\ idx' = idx
              /\ pc' = "failed"]_vars
    /\ [][pc = "failed" =>
              /\ entries' = entries
              /\ entryFiles' = entryFiles
              /\ pc' \in {"failed", "idle"}]_vars

\* C18 witness: the pass failed at the second of two listed entries, which
\* the store does not hold, after the first was fetched and put.
C18_Witness ==
    /\ pc = "failed"
    /\ last_op = "assert"
    /\ Len(sync_list) = 2
    /\ idx = 2
    /\ downloaded = 1
    /\ sync_list[1][1] \in DOMAIN entries
    /\ sync_list[2][1] \notin DOMAIN entries

(***************************************************************************)
(* The comment part of FeedBackup.backup: a session, get_meta_since,       *)
(* add_usernames, get_bodies_since, the puts, sessionexpire.  Every run of *)
(* the program makes one pass on a store it has just loaded.               *)
(***************************************************************************)
\* The body of a remote comment.  parentid is a string: the number of the
\* parent, or (comment 2) something that is not a number at all.
BodyOf(c) ==
    [jitemid |-> 1,
     parentid |-> IF c = 2 THEN Str(None) ELSE IF c > 2 THEN Str(1) ELSE Str(0),
     posterid |-> PosterOf(c),
     body |-> Str(c)]

\* The pages the server may answer a body request anchored at h with: bodies
\* of comments above h, at most BodyPageSize of them, or none.
BodyPages(h) ==
    {page \in SUBSET {c \in rcomments : c > h} : Cardinality(page) <= BodyPageSize}

\* int(comment['parentid']), or 0 on ValueError
comment_parent_id(comment) ==
    IF comment.parentid.v = None THEN 0 ELSE comment.parentid.v

\* sorted(bodies.items(), key=parent id): the ids in an order of their parent
\* ids; bodies with one parent id keep the order of the dict, which is any.
SortedByParent(all) ==
    {o \in Orderings(DOMAIN all) :
        \A i, j \in 1..Len(o) :
            i < j => comment_parent_id(all[o[i]]) <= comment_parent_id(all[o[j]])}

\* session = connection.sessiongenerate(); get_meta_since sets up its locals.
BeginComments ==
    /\ UNCHANGED outsideComments
    /\ last_op' = "begin_comments"
    /\ cpc = "idle"
    /\ npass < MaxPasses
    /\ npass' = npass + 1
    /\ nsess' = nsess + 1
    /\ session' = nsess + 1
    /\ sessions' = sessions \cup {nsess + 1}
    /\ rsess' = {}
    /\ nexpire' = 0
    /\ highest' = max_comment_id
    /\ maxid' = max_comment_id + 1
    /\ mseed' = max_comment_id
    /\ all_meta' = NoMeta
    /\ mreq' = 0
    /\ bpos' = 0
    /\ bodies' = << >>
    /\ breq' = 0
    /\ last_page' = {}
    /\ pqueue' = << >>
    /\ cput' = {}
    /\ comments0' = comments
    /\ commentFiles0' = commentFiles
    /\ cpc' = "phaseA"
    /\ UNCHANGED <<comments, commentFiles, max_comment_id, modified, rcomments,
                   usernames, usernamesFile>>

\* One turn of get_meta_since's loop, the request made with the session.
CommentsMetaPage ==
    /\ UNCHANGED outsideComments
    /\ last_op' = "comments_meta_page"
    /\ cpc = "phaseA"
    /\ highest < maxid
    /\ mreq < MaxMetaReq
    /\ rsess' = rsess \cup {session}
    /\ LET meta == fetch_comment_meta(highest)
       IN  /\ maxid' = meta.maxid
           /\ highest' = HighestAfter(highest, DOMAIN meta.comments)
           /\ all_meta' = [comments |-> Update(all_meta.comments, meta.comments),
                           usermaps |-> Update(all_meta.usermaps, meta.usermaps)]
    /\ mreq' = mreq + 1
    /\ UNCHANGED <<comments, commentFiles, max_comment_id, modified, rcomments,
                   usernames, usernamesFile, mseed, cpc, session, sessions, nsess,
                   nexpire, bpos, bodies, breq, last_page, pqueue, cput,
                   comments0, commentFiles0, npass>>

\* fetch_comment_meta raises: the error leaves backup.
CommentsMetaFails ==
    /\ UNCHANGED outsideComments
    /\ last_op' = "comments_meta_fails"
    /\ cpc = "phaseA"
    /\ highest < maxid
    /\ rsess' = rsess \cup {session}
    /\ cpc' = "aborted"
    /\ UNCHANGED <<comments, commentFiles, max_comment_id, modified, rcomments,
                   usernames, usernamesFile, highest, maxid, all_meta, mreq, mseed,
                   session, sessions, nsess, nexpire, bpos, bodies, breq,
                   last_page, pqueue, cput, comments0, commentFiles0, npass>>

\* get_meta_since returns; self.storage.add_usernames(meta['usermaps']); then
\* `if meta['comments']` and get_bodies_since's first test of its loop.
AddUsernames ==
    /\ UNCHANGED outsideComments
    /\ last_op' = "add_usernames"
    /\ cpc = "phaseA"
    /\ ~(highest < maxid)
    /\ usernames' = Update(usernames, all_meta.usermaps)
    /\ usernamesFile' = {Update(usernames, all_meta.usermaps)}
    /\ modified' = TRUE
    /\ bpos' = max_comment_id
    /\ cpc' = IF DOMAIN all_meta.comments = {} THEN "expire"
              ELSE IF max_comment_id # maxid THEN "phaseB"
              ELSE "sort"
    /\ UNCHANGED <<comments, commentFiles, max_comment_id, rcomments,
                   highest, maxid, all_meta, mreq, mseed,
                   session, sessions, nsess, rsess, nexpire, bodies, breq,
                   last_page, pqueue, cput, comments0, commentFiles0, npass>>

\* Mutant: the position stays where it is.
PositionStuck(old, page) == old

\* for id in meta: if int(id) > int(highest): highest = id
PositionAfter(old, page) == Max(old, SetMax(page))

\* Mutant: the last body of a page is put in the store as the page arrives.
BodyPageStreaming ==
    /\ UNCHANGED outsideComments
    /\ last_op' = "body_page"
    /\ cpc = "phaseB"
    /\ breq < MaxBodyReq
    /\ breq' = breq + 1
    /\ rsess' = rsess \cup {session}
    /\ \E page \in BodyPages(bpos) :
          /\ last_page' = page
          /\ bpos' = PositionAfter(bpos, page)
          /\ bodies' = Update(bodies, [c \in page |-> BodyOf(c)])
          /\ cpc' = IF page = {} \/ maxid \in page \/ PositionAfter(bpos, page) = maxid
                    THEN "sort"
                    ELSE "phaseB"
          /\ IF page = {}
             THEN UNCHANGED <<comments, commentFiles, modified>>
             ELSE add_comment(BodyOf(SetMax(page)),
                              [entry_id |-> 1, comment_id |-> SetMax(page)])
    /\ UNCHANGED <<max_comment_id, rcomments,
                   usernames, usernamesFile, highest, maxid, all_meta, mreq, mseed,
                   session, sessions, nsess, nexpire, pqueue, cput,
                   comments0, commentFiles0, npass>>

\* One turn of `while int(highest) != int(maxid)` with the tests that end it.
BodyPage ==
    /\ UNCHANGED outsideComments
    /\ last_op' = "body_page"
    /\ cpc = "phaseB"
    /\ breq < MaxBodyReq
    /\ breq' = breq + 1
    /\ rsess' = rsess \cup {session}
    /\ \E page \in BodyPages(bpos) :
          /\ last_page' = page
          /\ bpos' = PositionAfter(bpos, page)
          /\ bodies' = Update(bodies, [c \in page |-> BodyOf(c)])
          /\ cpc' = IF page = {} \/ maxid \in page \/ PositionAfter(bpos, page) = maxid
                    THEN "sort"
                    ELSE "phaseB"
    /\ UNCHANGED <<comments, commentFiles, max_comment_id, modified, rcomments,
                   usernames, usernamesFile, highest, maxid, all_meta, mreq, mseed,
                   session, sessions, nsess, nexpire, pqueue, cput,
                   comments0, commentFiles0, npass>>

\* fetch_comment_bodies raises: the error leaves backup.
BodyPageFails ==
    /\ UNCHANGED outsideComments
    /\ last_op' = "body_page_fails"
    /\ cpc = "phaseB"
    /\ rsess' = rsess \cup {session}
    /\ cpc' = "aborted"
    /\ UNCHANGED <<comments, commentFiles, max_comment_id, modified, rcomments,
                   usernames, usernamesFile, highest, maxid, all_meta, mreq, mseed,
                   session, sessions, nsess, nexpire, bpos, bodies, breq,
                   last_page, pqueue, cput, comments0, commentFiles0, npass>>

\* get_bodies_since returns; the for statement sorts the bodies.
SortBodies ==
    /\ UNCHANGED outsideComments
    /\ last_op' = "sort_bodies"
    /\ cpc = "sort"
    /\ \E o \in SortedByParent(bodies) : pqueue' = o
    /\ cpc' = "persist"
    /\ UNCHANGED <<comments, commentFiles, max_comment_id, modified, rcomments,
                   usernames, usernamesFile, highest, maxid, all_meta, mreq, mseed,
                   session, sessions, nsess, rsess, nexpire, bpos, bodies, breq,
                   last_page, cput, comments0, commentFiles0, npass>>

\* username = self.storage.usernames[v['posterid']] raises KeyError
UnknownPoster(v) == v.posterid # 0 /\ v.posterid \notin DOMAIN usernames

\* The extra fields of a put: entry_id, comment_id, comment_parent_id, username.
CommentExtras(k, v) ==
    [entry_id |-> v.jitemid,
     comment_id |-> k,
     comment_parent_id |-> comment_parent_id(v),
     username |-> IF v.posterid # 0 THEN usernames[v.posterid] ELSE Str(0)]

\* One turn of the for loop: self.storage.add_comment(v, ...).
PersistComment ==
    /\ UNCHANGED outsideComments
    /\ last_op' = "persist_comment"
    /\ cpc = "persist"
    /\ pqueue # << >>
    /\ ~UnknownPoster(bodies[Head(pqueue)])
    /\ add_comment(bodies[Head(pqueue)], CommentExtras(Head(pqueue), bodies[Head(pqueue)]))
    /\ cput' = cput \cup {Head(pqueue)}
    /\ pqueue' = Tail(pqueue)
    /\ UNCHANGED <<max_comment_id, rcomments,
                   usernames, usernamesFile, highest, maxid, all_meta, mreq, mseed,
                   cpc, session, sessions, nsess, rsess, nexpire, bpos, bodies, breq,
                   last_page, comments0, commentFiles0, npass>>

\* One turn of the for loop, the user name of the poster missing: the
\* KeyError leaves backup.
PersistRaises ==
    /\ UNCHANGED outsideComments
    /\ last_op' = "persist_raises"
    /\ cpc = "persist"
    /\ pqueue # << >>
    /\ UnknownPoster(bodies[Head(pqueue)])
    /\ cpc' = "aborted"
    /\ UNCHANGED <<comments, commentFiles, max_comment_id, modified, rcomments,
                   usernames, usernamesFile, highest, maxid, all_meta, mreq, mseed,
                   session, sessions, nsess, rsess, nexpire, bpos, bodies, breq,
                   last_page, pqueue, cput, comments0, commentFiles0, npass>>

\* connection.sessionexpire(session), after the puts or when there was
\* nothing to fetch.
ExpireSession ==
    /\ UNCHANGED outsideComments
    /\ last_op' = "sessionexpire"
    /\ \/ cpc = "expire"
       \/ cpc = "persist" /\ pqueue = << >>
    /\ sessions' = sessions \ {session}
    /\ nexpire' = nexpire + 1
    /\ cpc' = "done"
    /\ UNCHANGED <<comments, commentFiles, max_comment_id, modified, rcomments,
                   usernames, usernamesFile, highest, maxid, all_meta, mreq, mseed,
                   session, nsess, rsess, bpos, bodies, breq,
                   last_page, pqueue, cput, comments0, commentFiles0, npass>>

\* with open(usernames_path): self.usernames = json.load(f), if the file is there
ReloadUsernames(old) ==
    IF usernamesFile = {} THEN old ELSE CHOOSE u \in usernamesFile : TRUE

\* The program has ended, with or without the error; it is run again:
\* JournalStorage.__init__ loads the store.
NextRun ==
    /\ last_op' = "next_run"
    /\ cpc \in {"done", "aborted"}
    /\ cpc' = "idle"
    /\ DoReload(0)
    /\ usernames' = ReloadUsernames(<< >>)
    /\ UNCHANGED <<entryFiles, commentFiles, usernamesFile, userinfo, userinfoFile,
                   put_error, writeVars, backupVars, metaVars, treeVars, pathVars,
                   renderVars,
                   session, sessions, nsess, rsess, nexpire, bpos, bodies, breq,
                   last_page, pqueue, cput, comments0, commentFiles0, npass>>

NextComments ==
    \/ RemoteComment
    \/ BeginComments
    \/ CommentsMetaPage
    \/ CommentsMetaFails
    \/ AddUsernames
    \/ BodyPage
    \/ BodyPageFails
    \/ SortBodies
    \/ PersistComment
    \/ PersistRaises
    \/ ExpireSession
    \/ NextRun

SpecComments == InitAll /\ [][NextComments]_vars

\* C14: get_bodies_since makes no request after an empty page, after a page
\* that holds maxid, or once its position is maxid; its position only moves
\* to a larger id; and against a server that answers with bodies above the
\* anchor or with nothing it ends: every request but the last moves the
\* position to a comment above the start, so a call makes at most one request
\* per such comment and one more.
C14_BodyLoopStopsAndEnds ==
    /\ [](cpc = "phaseB" =>
              /\ bpos # maxid
              /\ breq > 0 => (last_page # {} /\ maxid \notin last_page))
    /\ [](cpc \in {"phaseB", "sort"} =>
              breq <= Cardinality({c \in rcomments : c > mseed}) + 1)
    /\ [][last_op' = "body_page" =>
              /\ bpos' >= bpos
              /\ last_page' # {} => bpos' > bpos]_vars

\* C14 witness: the second body request of a call was answered with the page
\* that holds maxid, and the walk ended there with three bodies.
C14_Witness ==
    /\ cpc = "sort"
    /\ breq = 2
    /\ maxid \in last_page
    /\ Cardinality(DOMAIN bodies) = 3

\* C15 (as claimed): every comment the pass has put has an id that is in the
\* metadata get_meta_since gathered.
C15_PutsHaveMetadata == cput \subseteq DOMAIN all_meta.comments

\* C16: after a metadata request or a body request that failed the pass is
\* over with nothing put: the comments in memory and on disk are those of the
\* beginning of the pass; and once a comment is put no page is requested in
\* that pass any more.
C16_FetchFailureLeavesNoComment ==
    /\ [](last_op \in {"comments_meta_fails", "body_page_fails"} =>
              /\ cpc = "aborted"
              /\ cput = {}
              /\ comments = comments0
              /\ commentFiles = commentFiles0)
    /\ [][(cput # {} /\ npass' = npass) => (mreq' = mreq /\ breq' = breq)]_vars

\* C16 witness: the second body request of a pass failed after a first page
\* of bodies had arrived, and no comment was put.
C16_Witness ==
    /\ last_op = "body_page_fails"
    /\ cpc = "aborted"
    /\ breq = 1
    /\ DOMAIN bodies # {}
    /\ DOMAIN all_meta.comments # {}
    /\ comments = comments0
    /\ commentFiles = commentFiles0

\* C17 (as claimed): every request of a pass carries the handle obtained at
\* its beginning, and when the pass is over the handle has been released
\* exactly once.
C17_SessionReleasedOnce ==
    /\ rsess \subseteq {session}
    /\ cpc \in {"phaseA", "phaseB", "sort", "persist", "expire"} =>
          (nexpire = 0 /\ session \in sessions)
    /\ cpc \in {"done", "aborted"} => (nexpire = 1 /\ session \notin sessions)

(***************************************************************************)
(* The puts of JournalStorage with records json cannot encode: a value of  *)
(* a type BetterJSONEncoder.default does not know makes json.dumps raise   *)
(* TypeError.                                                              *)
(***************************************************************************)
\* A value of a type the encoder does not know (an xmlrpclib.DateTime, say).
Obj(v) == [tag |-> "obj", v |-> v]

\* json.dumps(value, cls=BetterJSONEncoder) raises: one of the fields holds
\* a value that default() hands to json.JSONEncoder.default.
EncodeRaises(value, fields) ==
    \E k \in fields \cap DOMAIN value : value[k].tag = "obj"

PutEntryInputs == [itemid : EntryIds, event : {Str(1), Bin(1), Obj(1)}]
PutCommentInputs ==
    [comment_id : CommentIds, entry_id : EntryIds, body : {Str(1), Obj(1)}]
PutUserInputs == UNION {[D -> {Str(1), Obj(1)}] : D \in SUBSET {1, 2}}

\* self.add_entry(entry)
PutEntry ==
    /\ UNCHANGED outsidePut
    /\ last_op' = "put_entry"
    /\ nops < MaxOps
    /\ nops' = nops + 1
    /\ \E entry \in PutEntryInputs :
          IF EncodeRaises(entry, {"event"})
          THEN /\ entries' = IndexEntry(entries, entry)
               /\ put_error' = TRUE
               /\ UNCHANGED <<entryFiles, modified>>
          ELSE /\ add_entry(entry, NoExtras)
               /\ put_error' = FALSE
    /\ UNCHANGED <<comments, commentFiles, usernames, usernamesFile, userinfo, userinfoFile>>

\* self.add_comment(comment)
PutComment ==
    /\ UNCHANGED outsidePut
    /\ last_op' = "put_comment"
    /\ nops < MaxOps
    /\ nops' = nops + 1
    /\ \E comment \in PutCommentInputs :
          IF EncodeRaises(comment, {"body"})
          THEN /\ comments' = IndexComment(comments, comment)
               /\ put_error' = TRUE
               /\ UNCHANGED <<commentFiles, modified>>
          ELSE /\ add_comment(comment, NoExtras)
               /\ put_error' = FALSE
    /\ UNCHANGED <<entries, entryFiles, usernames, usernamesFile, userinfo, userinfoFile>>

\* self.add_usernames(usermap)
PutUsernames ==
    /\ UNCHANGED outsidePut
    /\ last_op' = "put_usernames"
    /\ nops < MaxOps
    /\ nops' = nops + 1
    /\ \E usermap \in PutUserInputs :
          /\ usernames' = Update(usernames, usermap)
          /\ IF EncodeRaises(Update(usernames, usermap), {1, 2})
             THEN /\ put_error' = TRUE
                  /\ UNCHANGED <<usernamesFile, modified>>
             ELSE /\ usernamesFile' = {Update(usernames, usermap)}
                  /\ modified' = TRUE
                  /\ put_error' = FALSE
    /\ UNCHANGED <<entries, entryFiles, comments, commentFiles, userinfo, userinfoFile>>

\* self.add_userinfo(userinfo)
PutUserinfo ==
    /\ UNCHANGED outsidePut
    /\ last_op' = "put_userinfo"
    /\ nops < MaxOps
    /\ nops' = nops + 1
    /\ \E info \in PutUserInputs :
          /\ userinfo' = Update(userinfo, info)
          /\ IF EncodeRaises(Update(userinfo, info), {1, 2})
             THEN /\ put_error' = TRUE
                  /\ UNCHANGED <<userinfoFile, modified>>
             ELSE /\ userinfoFile' = {Update(userinfo, info)}
                  /\ modified' = TRUE
                  /\ put_error' = FALSE
    /\ UNCHANGED <<entries, entryFiles, comments, commentFiles, usernames, usernamesFile>>

NextPut == PutEntry \/ PutComment \/ PutUsernames \/ PutUserinfo

SpecPut == InitAll /\ [][NextPut]_vars

\* C19 (as claimed): a put that raised from the encoder has changed neither
\* the files nor the index in memory.
C19_FailedPutChangesNothing ==
    [][put_error' =>
          /\ entryFiles' = entryFiles
          /\ commentFiles' = commentFiles
          /\ usernamesFile' = usernamesFile
          /\ userinfoFile' = userinfoFile
          /\ entries' = entries
          /\ comments' = comments
          /\ usernames' = usernames
          /\ userinfo' = userinfo]_vars

RECURSIVE Under(_, _, _)
\* Node n is in the list of o or of a node under o.
Under(n, o, fuel) ==
    /\ fuel > 0
    /\ PlacedIn(n) # {}
    /\ \/ o \in PlacedIn(n)
       \/ LET up == CHOOSE x \in PlacedIn(n) : TRUE
          IN  up # 0 /\ Under(up, o, fuel - 1)

\* A search of the non-empty list of node o for a parent id finds nothing
\* exactly when the id is not under o, and then it answers None.
SublevelSearchNeverFatal ==
    \A o \in TreeNodeIds :
        kids[o] # << >> =>
            \A id \in 1..(MaxTree + 1) :
                /\ find_place_by_parent_id(id, o) # RuntimeError
                /\ find_place_by_parent_id(id, o) = None <=> ~Under(id, o, MaxTree)
                /\ find_place_by_parent_id(id, o) # None =>
                       find_place_by_parent_id(id, o) = id

\* C20: add_comment raises from the top-level search exactly when the parent
\* id of the comment is not 0 and is the id of no node built so far, and then
\* the tree and the list of hidden comments are as before; a search of a
\* nested sublevel that finds nothing answers None and never raises.
C20_OrphanRaisesAndChangesNothing ==
    [][/\ (tpc = "build" /\ tqueue # << >>) =>
              LET p == Head(tqueue).comment_parent_id
              IN  /\ last_op' = "tree_add_comment_raises" <=>
                         (p # 0 /\ p \notin TreeNodeIds)
                  /\ last_op' = "tree_add_comment_raises" =>
                         /\ kids' = kids
                         /\ deleted_comments' = deleted_comments
                         /\ skip' = skip
                         /\ tpc' = "error"
       /\ SublevelSearchNeverFatal']_vars

\* C20 witness: with 1 at the root and 2 under 1, hidden comment 3 names
\* parent 4, which no node has; the search went through the list of 1,
\* found nothing there, and add_comment raised.
C20_Witness ==
    /\ tpc = "error"
    /\ last_op = "tree_add_comment_raises"
    /\ kids[0] = <<1>> /\ 1 \in DOMAIN kids /\ kids[1] = <<2>>
    /\ Head(tqueue).comment_id = 3
    /\ Head(tqueue).comment_parent_id = 4
    /\ Head(tqueue).state = "D"
    /\ deleted_comments = << >>
    /\ find_place_by_parent_id(4, 1) = None

(***************************************************************************)
(* CommentsTree.render.  generate_entries builds the tree of an entry and  *)
(* calls render once; render marks the orphans, walks the lists, writes    *)
(* the mapped state into each node it surfaces and returns the HTML, of    *)
(* which the nodes, their states and their depths are kept here.           *)
(***************************************************************************)
\* The values comment['state'] takes: empty, the five letters render knows,
\* and one it does not know.
RenderStates == {"", "A", "F", "S", "D", "B", "X"}

\* raise ValueError('Unknown comment state ...')
ValueError == "ValueError"

\* Mutant: a state render does not know is shown as visible.
MapStateOpen(state) ==
    IF state = "" THEN "visible"
    ELSE IF state = "D" THEN "deleted"
    ELSE IF state = "B" THEN "banned"
    ELSE IF state = "S" THEN "screened"
    ELSE "visible"

\* state = comment['state']; if state: ... else: comment['state'] = 'visible'
MapState(state) ==
    IF state = "" THEN "visible"
    ELSE IF state = "D" THEN "deleted"
    ELSE IF state = "B" THEN "banned"
    ELSE IF state = "S" THEN "screened"
    ELSE IF state \in {"A", "F"} THEN "visible"
    ELSE ValueError

RECURSIVE render(_, _, _, _)
\* render(sublevel, n) over the comments `context`; sk is _skip after
\* mark_orphans, acc the states written and the nodes surfaced so far.  A
\* ValueError ends every level of the walk.
render(context, n, sk, acc) ==
    IF context = << >> \/ acc.raised THEN acc
    ELSE LET comment == Head(context)
         IN  IF sk[comment] THEN render(Tail(context), n, sk, acc)
             ELSE LET state == MapState(acc.nstate[comment])
                  IN  IF state = ValueError THEN [acc EXCEPT !.raised = TRUE]
                      ELSE LET here == [nstate |-> [acc.nstate EXCEPT ![comment] = state],
                                        shown |-> Append(acc.shown,
                                                         [comment_id |-> comment,
                                                          state |-> state,
                                                          n |-> n]),
                                        raised |-> FALSE]
                               below == IF kids[comment] # << >>
                                        THEN render(kids[comment], n + 1, sk, here)
                                        ELSE here
                           IN  render(Tail(context), n, sk, below)

\* The parents of a list whose tree can be built: 0 or a smaller id of the list.
EarlierParentIds(S) == {q \in [S -> {0} \cup S] : \A n \in S : q[n] < n}

\* The orders a list is taken in: ascending and descending ids.
StoredOrders(S) ==
    {o \in Orderings(S) :
        \/ \A i, j \in 1..Len(o) : i < j => o[i] < o[j]
        \/ \A i, j \in 1..Len(o) : i < j => o[i] > o[j]}

\* generate_entries, for an entry whose comments have the states render may
\* meet: the list is sorted, the tree is new.
BeginRenderEntry ==
    /\ UNCHANGED outsideRender
    /\ last_op' = "begin_entry"
    /\ tpc = "new"
    /\ \E S \in SUBSET TreeIds :
          \E o \in StoredOrders(S), p \in EarlierParentIds(S), st \in [S -> RenderStates] :
              /\ tinput' = TreeList(o, p, st)
              /\ tqueue' = SortedByCommentId(TreeList(o, p, st))
              /\ nstate' = st
    /\ shown' = << >>
    /\ tpc' = "build"
    /\ UNCHANGED <<kids, deleted_comments, skip>>

\* One call of comments_tree.render(): mark_orphans, the walk from self.tree.
RenderCall(done) ==
    LET sk == MarkEach(DescendingById(deleted_comments), skip)
        r == render(kids[0], 0, sk, [nstate |-> nstate, shown |-> << >>, raised |-> FALSE])
    IN  /\ skip' = sk
        /\ nstate' = r.nstate
        /\ IF r.raised
           THEN tpc' = "render_error" /\ UNCHANGED shown
           ELSE tpc' = done /\ shown' = r.shown

\* comments=comments_tree.render(), once every comment of the entry is added.
Render ==
    /\ UNCHANGED outsideRender
    /\ last_op' = "render"
    /\ tpc = "build"
    /\ tqueue = << >>
    /\ RenderCall("rendered")
    /\ UNCHANGED <<tinput, tqueue, kids, deleted_comments>>

\* comments_tree.render() called once more on the tree it has rendered.
RenderAgain ==
    /\ UNCHANGED outsideRender
    /\ last_op' = "render_again"
    /\ tpc = "rendered"
    /\ RenderCall("rendered_again")
    /\ UNCHANGED <<tinput, tqueue, kids, deleted_comments>>

NextRender == BeginRenderEntry \/ AddComment \/ Render \/ RenderAgain

SpecRender == InitAll /\ [][NextRender]_vars

\* The node whose list holds node n (0 for self.tree).
ParentOf(n) == CHOOSE o \in PlacedIn(n) : TRUE

\* Node n is prunable or is in the subtree of a prunable node.
UnderSkipped(n) ==
    \/ skip[n]
    \/ \E o \in TreeNodeIds : skip[o] /\ Under(n, o, MaxTree)

SurfacedIds == {n \in TreeNodeIds : ~UnderSkipped(n)}
ShownIds == {shown[i].comment_id : i \in 1..Len(shown)}

KnownStates == {"", "A", "F", "S", "D", "B"}

VisibleAs(state) ==
    CASE state \in {"", "A", "F"} -> "visible"
      [] state = "S" -> "screened"
      [] state = "D" -> "deleted"
      [] state = "B" -> "banned"
      [] OTHER -> "none"

PlaceOf(n) == CHOOSE k \in 1..Len(kids[ParentOf(n)]) : kids[ParentOf(n)][k] = n

\* The order and the depths of a depth-first walk: a node of self.tree has
\* depth 0, any other comes after its parent and one level deeper; the nodes
\* of one list come in the order of the list; and the subtree of a node
\* follows it without a gap.
DepthFirst ==
    /\ \A i \in 1..Len(shown) :
          LET c == shown[i].comment_id
          IN  IF ParentOf(c) = 0 THEN shown[i].n = 0
              ELSE \E j \in 1..(i - 1) :
                      /\ shown[j].comment_id = ParentOf(c)
                      /\ shown[i].n = shown[j].n + 1
    /\ \A i, j \in 1..Len(shown) :
          (i < j /\ ParentOf(shown[i].comment_id) = ParentOf(shown[j].comment_id)) =>
              PlaceOf(shown[i].comment_id) < PlaceOf(shown[j].comment_id)
    /\ \A i, j, k \in 1..Len(shown) :
          (i < j /\ j < k /\ Under(shown[k].comment_id, shown[i].comment_id, MaxTree)) =>
              Under(shown[j].comment_id, shown[i].comment_id, MaxTree)

\* C21: the first render of a tree raises exactly when a node that is not
\* prunable and not under a prunable node has a state outside '', A, F, S, D,
\* B; otherwise it surfaces exactly those nodes, each once, in depth-first
\* order, and gives each the state visible ('', A, F), screened (S), deleted
\* (D) or banned (B).
C21_RenderWalksAndMapsStates ==
    last_op = "render" =>
        /\ tpc = "render_error" <=>
              \E n \in SurfacedIds : TRecord(n).state \notin KnownStates
        /\ tpc # "render_error" =>
              /\ tpc = "rendered"
              /\ ShownIds = SurfacedIds
              /\ Len(shown) = Cardinality(SurfacedIds)
              /\ \A i \in 1..Len(shown) :
                    /\ shown[i].state = VisibleAs(TRecord(shown[i].comment_id).state)
                    /\ shown[i].state \in {"visible", "screened", "deleted", "banned"}
                    /\ nstate[shown[i].comment_id] = shown[i].state
              /\ DepthFirst

\* C21 witness: screened comment 1 has the child 3 (state F), comment 2 with
\* an empty state is at the root: render surfaces 1, 3, 2.
C21_Witness ==
    /\ last_op = "render"
    /\ tpc = "rendered"
    /\ kids[0] = <<1, 2>> /\ kids[1] = <<3>>
    /\ shown = <<[comment_id |-> 1, state |-> "screened", n |-> 0],
                 [comment_id |-> 3, state |-> "visible", n |-> 1],
                 [comment_id |-> 2, state |-> "visible", n |-> 0]>>
    /\ TRecord(3).state = "F"
    /\ TRecord(2).state = ""

\* C23: after render has marked the orphans of a tree built in ascending id
\* order, no comment whose state is not D or B is prunable or under a
\* prunable node, and a render that returns has surfaced every one of them.
C23_LiveCommentsAreSurfaced ==
    last_op = "render" =>
        \A n \in TreeNodeIds :
            ~Hidden(n) =>
                /\ ~UnderSkipped(n)
                /\ tpc = "rendered" => n \in ShownIds

\* C23 witness: deleted comment 1 has the live child 2 and stays as a
\* placeholder; the childless deleted comment 3 is pruned.
C23_Witness ==
    /\ last_op = "render"
    /\ tpc = "rendered"
    /\ kids[0] = <<1, 3>> /\ kids[1] = <<2>>
    /\ TRecord(1).state = "D" /\ TRecord(2).state = "A" /\ TRecord(3).state = "D"
    /\ ~skip[1] /\ skip[3]
    /\ ShownIds = {1, 2}

\* C25 (as claimed): a second render of the same tree returns, with the
\* nodes and the states of the first.
C25_SecondRenderSame ==
    [][last_op' = "render_again" =>
          /\ tpc' = "rendered_again"
          /\ shown' = shown]_vars

(***************************************************************************)
(* The comment pass run again.                                             *)
(***************************************************************************)
\* The ids of the comments the store held on disk when the pass began.
StoredAtBegin ==
    {commentFiles0[f].data.comment_id : f \in GlobJs(commentFiles0)}

\* The remote holds no comment above those the store was loaded with.
NothingNew == rcomments = {} \/ SetMax(rcomments) \in StoredAtBegin

\* C22: a pass begun on a store loaded from files that hold the newest
\* comment of the remote (as after a first pass and the reload of the next
\* run) makes one metadata request, no body request and no put.  A put does
\* not move the store's max_comment_id: all through a pass, and after it, it
\* is the value the pass was seeded with, and only the reload of the next run
\* raises it to the largest id on disk.
C22_SecondPassFetchesNoComment ==
    /\ []((cpc # "idle" /\ NothingNew) =>
              /\ mreq <= 1
              /\ breq = 0
              /\ cput = {}
              /\ cpc \in {"expire", "done"} => mreq = 1)
    /\ [](cpc # "idle" => (max_comment_id = mseed /\ highest >= mseed))
    /\ [][last_op' = "next_run" /\ ~load_error' =>
              max_comment_id' = SetMax({0} \cup PersistedCommentIds)]_vars

\* C22 witness: the first pass put two comments, the store was loaded again,
\* and the second pass is over after one metadata request and nothing else.
C22_Witness ==
    /\ npass = 2
    /\ cpc = "done"
    /\ Cardinality(StoredAtBegin) >= 2
    /\ NothingNew
    /\ max_comment_id = SetMax(rcomments)
    /\ mreq = 1 /\ breq = 0 /\ cput = {}

(***************************************************************************)
(* The store: the modified flag.                                           *)
(***************************************************************************)
\* The index in memory is one that reload(force=True) would load from the
\* files as they are.
WouldLoad ==
    /\ entries = LoadEntries(entryFiles)
    /\ \E order \in Orderings(PersistedCommentRecords) : comments = CommentsOf(order)

\* C24: between the calls of a store (no put under way), whenever modified
\* is false the entries and the comments in memory are what a forced reload
\* would load; a put that completes leaves the flag true; and the flag goes
\* from true to false only in a reload that loads (or in the constructor of
\* a new process), after which the index is the loaded one.
C24_UnmodifiedMeansLoaded ==
    /\ []((Ready /\ ~modified /\ ~load_error) => WouldLoad)
    /\ [][last_op' = "put_done" => modified']_vars
    /\ [][(modified /\ ~modified') =>
              /\ last_op' \in {"reload", "reload_force", "crash"}
              /\ WouldLoad']_vars
    /\ [][(~modified /\ last_op' = "reload") =>
              (~modified' /\ entries' = entries /\ comments' = comments)]_vars

\* C24 witness: a comment was put, a reload loaded it, and a reload that was
\* not forced then left the unmodified store alone.
C24_Witness ==
    /\ last_op = "reload"
    /\ Ready
    /\ ~modified
    /\ nops = MaxOps
    /\ entries = << >>
    /\ Cardinality(PersistedCommentIds) = 1
    /\ IndexedCommentIds = PersistedCommentIds
    /\ WouldLoad

====
